---- MODULE Spec2Model ----
(***************************************************************************)
(* Model of script.js: the aspect selector (chooseVariant), the background *)
(* video crossfade controller (DOMContentLoaded handler), the project grid *)
(* loader (loadProjects) and the direction-aware section snap controller   *)
(* (last IIFE of the file) with its centerSectionIndex.                    *)
(*                                                                         *)
(* Playback positions and durations are counted in units of 50 ms, so the  *)
(* 0.05 s guard of startNew is one unit.  Scroll offsets and heights are   *)
(* CSS pixels.                                                             *)
(***************************************************************************)
EXTENDS Integers, Sequences, FiniteSets, TLC

VARIABLES
    \* ---- aspect selector, exercised on its own ----
    argW, argH, result,
    \* ---- media crossfade controller ----
    winW, winH,          \* window.innerWidth / window.innerHeight
    variant, current, other,
    opacity, paused, pos, ready,
    autoplayOK,          \* whether the browser lets play() start playback
    listeners,           \* per element: queue of once-listeners for loadedmetadata
    pauseQ,              \* pending setTimeout(() => prev.pause(), 330) callbacks, oldest first
    resizeTimer,         \* the variable resizeTimer: 0 models null, otherwise a timer id
    resizePending,       \* ids of debounce timers that are armed and have not fired
    nTrans,              \* number of variant changes accepted so far (names the closures)
    runsSinceSignal,     \* history: runs of onSmartResize since the last resize signal
    lastArgs,            \* history: viewport size seen by the last run of onSmartResize
    burst,               \* history: resize signals since the last run of onSmartResize
    mlast,               \* history: the last media operation and what it did
    \* ---- section snap controller ----
    sections,            \* heights of the page's sections, top to bottom
    vh,                  \* window.innerHeight as the snap controller reads it
    scrollY,             \* window.scrollY
    smoothTo,            \* destination of the running smooth scroll, or None
    scrollEvt,           \* the offset changed and its scroll event is not dispatched yet
    lastY, direction, animating,
    snapTimer,           \* the variable snapTimer: 0 models null, otherwise a timer id
    snapPending,         \* armed snap timers with their closures (kind, section)
    targetY,
    rafId,               \* 0 models null, 1 a requested animation frame
    stable, last,        \* the variables of the tick closure of watchSettle
    loadState,           \* "loading", "armed" (timer of the load listener), "done"
    cmds,                \* history: window.scrollTo commands issued (saturating)
    lastCmd,             \* history: top of the last window.scrollTo command
    slast,               \* history: what the last step of the controller did
    userDone,            \* scenario: the user has stopped scrolling
    \* ---- project grid loader ----
    feedPc,              \* where loadProjects stands: "fetch", "json" or "done"
    res,                 \* what fetch settled with
    grid,                \* the children of the grid element, in order
    loadResult,          \* how the promise of loadProjects settled
    \* ---- centerSectionIndex, exercised on its own ----
    rects,               \* the rectangles handed to the scan, top to bottom
    innerH,              \* window.innerHeight at the call
    idx                  \* the index returned (sections counted from 1), or None

variantVars == <<argW, argH, result>>
mediaVars == <<winW, winH, variant, current, other, opacity, paused, pos, ready,
               autoplayOK, listeners, pauseQ, resizeTimer, resizePending, nTrans,
               runsSinceSignal, lastArgs, burst, mlast>>
snapVars == <<sections, vh, scrollY, smoothTo, scrollEvt, lastY, direction, animating,
              snapTimer, snapPending, targetY, rafId, stable, last, loadState, cmds,
              lastCmd, slast, userDone>>
feedVars == <<feedPc, res, grid, loadResult>>
centerVars == <<rects, innerH, idx>>
restVars == <<feedVars, centerVars>>
vars == <<variantVars, mediaVars, snapVars, restVars>>

\* ---------------------------------------------------------------- bounds
MaxSide == 18          \* largest width / height given to chooseVariant on its own
MaxNeg == 2            \* widths / heights given to it go down to -MaxNeg
DurLandscape == 3      \* duration of the landscape clip, in 50 ms units
DurPortrait == 2       \* duration of the portrait clip, in 50 ms units
MaxTransitions == 3    \* variant changes accepted in one run
MaxTimerIds == 3       \* timer ids handed out by setTimeout
UserStepSmall == 8     \* px of one small step of the user's slow scrolling
UserStepBig == 20      \* px of one large step of the user's slow scrolling
MaxGridK == 4          \* the user's scrolling stops at multiples of ScrollGrid up to this
CmdCap == 2            \* the count of scroll commands saturates here
MaxRecords == 3        \* longest array the feed delivers
MaxRects == 3          \* longest list of rectangles given to centerSectionIndex on its own
MaxCoord == 2          \* their tops and bottoms range over -MaxCoord .. MaxCoord
MaxInnerH == 3         \* window.innerHeight for those calls ranges over 0 .. MaxInnerH

\* ---------------------------------------------------------------- constants
EPS == 1               \* 0.05 s, in 50 ms units
OVERLAP_DIV == 20      \* OVERLAP_FRAC = 0.05: floor(vh * 0.05) = vh \div 20
MIN_THRESHOLD_PX == 8
SETTLE_FRAMES == 6
NEAR_EPS_PX == 2
ScrollGrid == 400      \* px between the offsets the user's scrolling stops at
SmoothStride == 380    \* px a smooth scroll may cover in one frame

Layouts == {<<>>, <<1200>>, <<800, 1200, 600>>, <<600, 1000>>}
ViewHeights == {0, 800}

\* history record of one media operation
EvFull(op, id, vid, t, thr, rep, b) ==
    [op |-> op, id |-> id, vid |-> vid, t |-> t, thr |-> thr, rep |-> rep, burst |-> b]
Ev(op, id, vid, t, thr) == EvFull(op, id, vid, t, thr, FALSE, 0)

Min(a, b) == IF a <= b THEN a ELSE b
Max(a, b) == IF a >= b THEN a ELSE b
Abs(a) == IF a < 0 THEN 0 - a ELSE a

\* ================================================================
\* Aspect selector
\* ================================================================
\* A JavaScript number as far as chooseVariant needs it: NaN, an infinity,
\* or a rational num/den with den > 0.
NaN == [kind |-> "nan", num |-> 0, den |-> 1]
PosInf == [kind |-> "inf", num |-> 1, den |-> 1]
NegInf == [kind |-> "inf", num |-> 0 - 1, den |-> 1]
Frac(n, d) == [kind |-> "fin", num |-> (IF d < 0 THEN 0 - n ELSE n), den |-> Abs(d)]

\* w / h
JsDiv(w, h) ==
    IF h = 0
    THEN (IF w = 0 THEN NaN ELSE IF w > 0 THEN PosInf ELSE NegInf)
    ELSE Frac(w, h)

\* x / (n/d) for a positive constant n/d
DivByRatio(x, n, d) ==
    IF x.kind = "fin" THEN Frac(x.num * d, x.den * n) ELSE x

\* Math.abs(Math.log(x)): NaN for NaN and for negative x, +Infinity for 0 and
\* for +Infinity.  For a positive rational, |ln x| = ln of x folded above 1,
\* kept as that folded rational (ln is increasing, so it orders the same).
AbsLog(x) ==
    IF x.kind = "nan" THEN NaN
    ELSE IF x.kind = "inf" THEN (IF x.num > 0 THEN PosInf ELSE NaN)
    ELSE IF x.num < 0 THEN NaN
    ELSE IF x.num = 0 THEN PosInf
    ELSE IF x.num >= x.den THEN Frac(x.num, x.den) ELSE Frac(x.den, x.num)

\* a < b, where the code has a <= b
Leq_Strict(a, b) ==
    IF a.kind = "nan" \/ b.kind = "nan" THEN FALSE
    ELSE IF a.kind = "inf" THEN FALSE
    ELSE IF b.kind = "inf" THEN TRUE
    ELSE a.num * b.den < b.num * a.den

\* a <= b on the values AbsLog returns
Leq(a, b) ==
    IF a.kind = "nan" \/ b.kind = "nan" THEN FALSE
    ELSE IF b.kind = "inf" THEN TRUE
    ELSE IF a.kind = "inf" THEN FALSE
    ELSE a.num * b.den <= b.num * a.den

\* the portrait reference taken as 3/4, where the code has 9/16
chooseVariant_Ref34(w, h) ==
    LET r == JsDiv(w, h)
        dL == AbsLog(DivByRatio(r, 16, 9))
        dP == AbsLog(DivByRatio(r, 3, 4))
    IN IF Leq(dL, dP) THEN "landscape" ELSE "portrait"

chooseVariant(w, h) ==
    LET r == JsDiv(w, h)
        dL == AbsLog(DivByRatio(r, 16, 9))
        dP == AbsLog(DivByRatio(r, 9, 16))
    IN IF Leq(dL, dP) THEN "landscape" ELSE "portrait"

Sides == (0 - MaxNeg) .. MaxSide

InitVariant ==
    /\ argW \in Sides
    /\ argH \in Sides
    /\ result = "none"

InitVariantIdle ==
    /\ argW = 1
    /\ argH = 1
    /\ result = "none"

\* chooseVariant is called on the arguments at hand
CallChoose ==
    /\ result = "none"
    /\ result' = chooseVariant(argW, argH)
    /\ UNCHANGED <<argW, argH, mediaVars, snapVars, restVars>>

\* the next pair of arguments is taken up
NextArgs ==
    /\ result # "none"
    /\ \E w \in Sides, h \in Sides :
          /\ argW' = w
          /\ argH' = h
    /\ result' = "none"
    /\ UNCHANGED <<mediaVars, snapVars, restVars>>

NextVariant == CallChoose \/ NextArgs

\* ================================================================
\* Project grid loader
\* ================================================================
\* What one element of the feed's array is to createCard: an object it can
\* render, null (the destructuring of line 289 throws), or an object whose
\* buttons value has no slice / forEach (the call of line 345 throws).
RecordKinds == {"object", "null", "badButtons"}

createCardThrows(project) == project \in {"null", "badButtons"}

\* data.forEach((proj) => grid.appendChild(createCard(proj))), from element i on
RECURSIVE appendCards(_, _, _)
appendCards(g, data, i) ==
    IF i > Len(data) THEN [grid |-> g, thrown |-> FALSE]
    ELSE IF createCardThrows(data[i]) THEN [grid |-> g, thrown |-> TRUE]
    ELSE appendCards(Append(g, "card"), data, i + 1)

\* the catch block appends the message, where the code replaces the children
showFailure_Append(g) == Append(g, "fail")

\* the catch block: grid.replaceChildren(fail)
showFailure(g) == <<"fail">>

FeedArrays == UNION {[1 .. n -> RecordKinds] : n \in 0 .. MaxRecords}

\* what res.json() gives: a rejection, a value that is no array, or an array
Bodies ==
    {[parse |-> "error", array |-> FALSE, items |-> <<>>],
     [parse |-> "ok", array |-> FALSE, items |-> <<>>]}
    \cup {[parse |-> "ok", array |-> TRUE, items |-> d] : d \in FeedArrays}

NoBody == [parse |-> "error", array |-> FALSE, items |-> <<>>]

\* what fetch settles with: a rejection or a response
Responses ==
    {[settled |-> "rejected", ok |-> FALSE, body |-> NoBody]}
    \cup {[settled |-> "resolved", ok |-> k, body |-> b] : k \in BOOLEAN, b \in Bodies}

InitFeed ==
    /\ feedPc = "fetch"
    /\ res = [settled |-> "pending", ok |-> FALSE, body |-> NoBody]
    /\ grid \in {<<>>, <<"static">>}
    /\ loadResult = "pending"

InitFeedIdle ==
    /\ feedPc = "done"
    /\ res = [settled |-> "pending", ok |-> FALSE, body |-> NoBody]
    /\ grid = <<>>
    /\ loadResult = "pending"

\* the await of fetch resumes: a rejection or a response that is not ok goes
\* to the catch block, an ok response goes on to await res.json()
FetchSettles ==
    /\ feedPc = "fetch"
    /\ \E r \in Responses :
          /\ res' = r
          /\ IF r.settled = "rejected" \/ ~r.ok
             THEN /\ grid' = showFailure(grid)
                  /\ feedPc' = "done"
                  /\ loadResult' = "fulfilled"
             ELSE /\ feedPc' = "json"
                  /\ UNCHANGED <<grid, loadResult>>
    /\ UNCHANGED <<variantVars, mediaVars, snapVars, centerVars>>

\* the await of res.json() resumes and the rest of loadProjects runs
JsonSettles ==
    /\ feedPc = "json"
    /\ LET b == res.body
           built == appendCards(<<>>, b.items, 1)
       IN grid' = IF b.parse = "error" \/ ~b.array THEN showFailure(grid)
                  ELSE IF built.thrown THEN showFailure(built.grid)
                  ELSE built.grid
    /\ feedPc' = "done"
    /\ loadResult' = "fulfilled"
    /\ UNCHANGED <<res, variantVars, mediaVars, snapVars, centerVars>>

NextFeed == FetchSettles \/ JsonSettles

\* ================================================================
\* Media crossfade controller
\* ================================================================
Vids == {"vidL", "vidP"}
\* the sizes the window takes: 16:9, square and 9:16
WinSizes == {<<16, 9>>, <<12, 12>>, <<9, 16>>}
TimerIds == 1 .. MaxTimerIds

Duration(v) == IF v = "vidL" THEN DurLandscape ELSE DurPortrait

ElemOf(vr) == IF vr = "landscape" THEN "vidL" ELSE "vidP"
OtherOf(e) == IF e = "vidL" THEN "vidP" ELSE "vidL"

\* setTimeout returns an id that no armed timer and no kept handle carries
FreshId(armed, handle) ==
    CHOOSE i \in TimerIds :
        /\ i \notin armed /\ i # handle
        /\ \A j \in TimerIds : (j \notin armed /\ j # handle) => i <= j

HasFreshId(armed, handle) == \E i \in TimerIds : i \notin armed /\ i # handle

\* The part of the page that the listeners and closures write.
MState == [opacity |-> opacity, paused |-> paused, pos |-> pos, pauseQ |-> pauseQ,
           ready |-> ready]

setOpacity(m, el, value) == [m EXCEPT !.opacity[el] = value]

\* video.play(); a rejected promise is swallowed and leaves the element paused
playSafely(m, video) ==
    IF autoplayOK THEN [m EXCEPT !.paused[video] = FALSE] ELSE m

\* ensureStart, reading the variable current when it runs
ensureStart(m, cur) == playSafely(setOpacity(m, cur, "1"), cur)

\* The seek of startNew: the clamp uses the duration when it is finite, which
\* is when the element has its metadata.  A seek on an element without
\* metadata either throws (thr) or is kept as the start position.
targetTime(m, cur, t) ==
    IF m.ready[cur] THEN Min(t, Max(Duration(cur) - EPS, 0)) ELSE t

seek(m, cur, t, thr) ==
    IF ~m.ready[cur] /\ thr THEN m ELSE [m EXCEPT !.pos[cur] = targetTime(m, cur, t)]

\* startNew of the closure cb = (id, prev, t), reading the variable current
\* (cur) at the time it runs.
startNew(m, cur, cb, thr) ==
    LET m1 == seek(m, cur, cb.t, thr)
        m2 == setOpacity(m1, cb.prev, "0")
        m3 == setOpacity(m2, cur, "1")
        m4 == [m3 EXCEPT !.pauseQ = Append(@, [id |-> cb.id, vid |-> cb.prev])]
    IN playSafely(m4, cur)

runListener(m, cur, cb, thr) ==
    IF cb.kind = "ensureStart" THEN ensureStart(m, cur) ELSE startNew(m, cur, cb, thr)

\* the once-listeners q[1..n] run in the order they were added; thr is the
\* set of positions whose seek throws
RECURSIVE runListeners(_, _, _, _, _)
runListeners(m, cur, q, n, thr) ==
    IF n = 0 THEN m
    ELSE runListener(runListeners(m, cur, q, n - 1, thr), cur, q[n], n \in thr)

EnsureCb == [kind |-> "ensureStart", id |-> 0, prev |-> "vidL", t |-> 0]

InitMedia ==
    /\ \E sz \in WinSizes :
          /\ winW = sz[1]
          /\ winH = sz[2]
    /\ ready \in [Vids -> BOOLEAN]
    /\ autoplayOK \in BOOLEAN
    /\ variant = chooseVariant(winW, winH)
    /\ current = ElemOf(variant)
    /\ other = OtherOf(current)
    /\ pos = [v \in Vids |-> 0]
    /\ pauseQ = <<>>
    /\ IF ready[current]
       THEN /\ opacity = [v \in Vids |-> IF v = current THEN "1" ELSE "0"]
            /\ paused = [v \in Vids |-> IF v = current THEN ~autoplayOK ELSE TRUE]
            /\ listeners = [v \in Vids |-> <<>>]
       ELSE /\ opacity = [v \in Vids |-> "0"]
            /\ paused = [v \in Vids |-> TRUE]
            /\ listeners = [v \in Vids |-> IF v = current THEN <<EnsureCb>> ELSE <<>>]
    /\ resizeTimer = 0
    /\ resizePending = {}
    /\ nTrans = 0
    /\ runsSinceSignal = 0
    /\ lastArgs = <<>>
    /\ burst = 0
    /\ mlast = Ev("init", 0, "vidL", 0, FALSE)

InitMediaIdle ==
    /\ InitMedia
    /\ winW = 16 /\ winH = 9
    /\ ready = [v \in Vids |-> TRUE]
    /\ autoplayOK

\* debouncedResize without its clearTimeout
debouncedResizeArmed_NoClear == resizePending

\* the timers left armed by the clearTimeout(resizeTimer) of debouncedResize
debouncedResizeArmed == resizePending \ {resizeTimer}

\* debouncedResize, after the window took the size w x h

debouncedResize(w, h) ==
    /\ HasFreshId(debouncedResizeArmed, 0)
    /\ winW' = w
    /\ winH' = h
    /\ resizeTimer' = FreshId(debouncedResizeArmed, 0)
    /\ resizePending' = debouncedResizeArmed \cup {resizeTimer'}
    /\ runsSinceSignal' = 0
    /\ burst' = Min(burst + 1, 2)
    /\ mlast' = Ev("signal", 0, "vidL", 0, FALSE)
    /\ UNCHANGED <<variant, current, other, opacity, paused, pos, ready, autoplayOK,
                   listeners, pauseQ, nTrans, lastArgs>>

\* a resize or orientationchange event
ResizeSignal ==
    /\ \E sz \in WinSizes : debouncedResize(sz[1], sz[2])
    /\ UNCHANGED <<variantVars, snapVars, restVars>>

\* the test of line 106 comparing the new variant with the element instead
nothingToDo_WrongOperand(newVariant) == newVariant = current

\* the test of line 106: the variant did not change
nothingToDo(newVariant) == newVariant = variant

\* onSmartResize
onSmartResize(thr) ==
    LET newVariant == chooseVariant(winW, winH)
        prev == current
        cur == ElemOf(newVariant)
        t == pos[prev]
        cb == [kind |-> "startNew", id |-> nTrans + 1, prev |-> prev, t |-> t]
        rep == lastArgs = <<winW, winH>>
    IN
    /\ lastArgs' = <<winW, winH>>
    /\ runsSinceSignal' = Min(runsSinceSignal + 1, 2)
    /\ burst' = 0
    /\ IF nothingToDo(newVariant)
       THEN /\ mlast' = EvFull("noop", 0, current, 0, FALSE, rep, burst)
            /\ UNCHANGED <<variant, current, other, opacity, paused, pos,
                           listeners, pauseQ, nTrans>>
       ELSE /\ nTrans < MaxTransitions
            /\ nTrans' = nTrans + 1
            /\ current' = cur
            /\ other' = OtherOf(cur)
            /\ variant' = newVariant
            /\ IF ready[cur]
               THEN LET m == startNew(MState, cur, cb, thr) IN
                    /\ opacity' = m.opacity
                    /\ paused' = m.paused
                    /\ pos' = m.pos
                    /\ pauseQ' = m.pauseQ
                    /\ listeners' = listeners
                    /\ mlast' = EvFull("startNew", cb.id, cur, t, FALSE, rep, burst)
               ELSE \* addEventListener, then current.load()
                    /\ listeners' = [listeners EXCEPT ![cur] = Append(@, cb)]
                    /\ paused' = [paused EXCEPT ![cur] = TRUE]
                    /\ pos' = [pos EXCEPT ![cur] = 0]
                    /\ opacity' = opacity
                    /\ pauseQ' = pauseQ
                    /\ mlast' = EvFull("defer", cb.id, cur, t, FALSE, rep, burst)

\* the debounce timer id fires
ResizeTimerFire ==
    /\ \E id \in resizePending :
          /\ resizePending' = resizePending \ {id}
          /\ onSmartResize(FALSE)
    /\ UNCHANGED <<winW, winH, ready, autoplayOK, resizeTimer>>
    /\ UNCHANGED <<variantVars, snapVars, restVars>>

\* loadedmetadata on element v: its once-listeners run and are removed
MetadataLoaded ==
    /\ \E v \in Vids :
          /\ ~ready[v]
          /\ \E thr \in SUBSET (1 .. Len(listeners[v])) :
                LET m0 == [MState EXCEPT !.pos[v] = Min(@, Duration(v)), !.ready[v] = TRUE]
                    n == Len(listeners[v])
                    m == runListeners(m0, current, listeners[v], n, thr)
                IN /\ opacity' = m.opacity
                   /\ paused' = m.paused
                   /\ pos' = m.pos
                   /\ pauseQ' = m.pauseQ
                   /\ mlast' = IF n = 0 THEN Ev("meta", 0, v, 0, FALSE)
                              ELSE Ev(IF listeners[v][n].kind = "startNew" THEN "startNewLate"
                                      ELSE "ensureStart", listeners[v][n].id, v,
                                      listeners[v][n].t,
                                      n \in thr /\ ~m0.ready[current])
          /\ ready' = [ready EXCEPT ![v] = TRUE]
          /\ listeners' = [listeners EXCEPT ![v] = <<>>]
    /\ UNCHANGED <<winW, winH, variant, current, other, autoplayOK, resizeTimer,
                   resizePending, nTrans, runsSinceSignal, lastArgs, burst>>
    /\ UNCHANGED <<variantVars, snapVars, restVars>>

\* the oldest pending () => prev.pause() fires
PauseTimerFire ==
    /\ pauseQ # <<>>
    /\ paused' = [paused EXCEPT ![Head(pauseQ).vid] = TRUE]
    /\ pauseQ' = Tail(pauseQ)
    /\ mlast' = Ev("pause", Head(pauseQ).id, Head(pauseQ).vid, 0, FALSE)
    /\ UNCHANGED <<winW, winH, variant, current, other, opacity, pos, ready, autoplayOK,
                   listeners, resizeTimer, resizePending, nTrans, runsSinceSignal,
                   lastArgs, burst>>
    /\ UNCHANGED <<variantVars, snapVars, restVars>>

\* 50 ms of playback on an element that is playing and has not ended
Playback ==
    /\ \E v \in Vids :
          /\ ready[v] /\ ~paused[v] /\ pos[v] < Duration(v)
          /\ pos' = [pos EXCEPT ![v] = @ + 1]
    /\ mlast' = Ev("playback", 0, "vidL", 0, FALSE)
    /\ UNCHANGED <<winW, winH, variant, current, other, opacity, paused, ready,
                   autoplayOK, listeners, pauseQ, resizeTimer, resizePending, nTrans,
                   runsSinceSignal, lastArgs, burst>>
    /\ UNCHANGED <<variantVars, snapVars, restVars>>

NextMedia ==
    \/ ResizeSignal
    \/ ResizeTimerFire
    \/ MetadataLoaded
    \/ PauseTimerFire
    \/ Playback

\* ================================================================
\* Section snap controller
\* ================================================================
None == 0 - 1          \* null in targetY, no smooth scroll in smoothTo, -1 in last

NumSections == Len(sections)
Height(i) == sections[i]

\* el.offsetTop of section i (sections are stacked from the top of the page)
RECURSIVE offsetTop(_)
offsetTop(i) == IF i <= 1 THEN 0 ELSE offsetTop(i - 1) + Height(i - 1)

PageHeight == offsetTop(NumSections + 1)
MaxScroll(s) == Max(0, PageHeight - s.vh)

\* the guard of line 407 letting a one-section page through
installed_OffByOne == ~(NumSections < 1)

\* the guard of line 407: the controller installs itself
installed == ~(NumSections < 2)

\* getBoundingClientRect() of section i at the scroll offset of s
rectTop(s, i) == offsetTop(i) - s.scrollY
rectBottom(s, i) == rectTop(s, i) + Height(i)

\* rects = sections.map(s => s.getBoundingClientRect()) at the scroll offset of s
Rects(s) == [i \in 1 .. NumSections |-> [top |-> rectTop(s, i), bottom |-> rectBottom(s, i)]]

\* i - 1 without the clamp of Math.max
clampPrev_NoClamp(i) == i - 1

\* Math.max(0, i - 1); sections are numbered from 1 here, so it is Max(1, i - 1)
clampPrev(i) == Max(1, i - 1)

\* the loop of centerSectionIndex from index i on, on the rectangles rs and
\* the viewport height h; mid = h / 2 is compared doubled
RECURSIVE centerScan(_, _, _)
centerScan(rs, h, i) ==
    IF 2 * rs[i].top <= h /\ 2 * rs[i].bottom >= h THEN i
    ELSE IF 2 * rs[i].top > h THEN clampPrev(i)
    ELSE IF i = Len(rs) THEN i
    ELSE centerScan(rs, h, i + 1)

\* centerSectionIndex(rects) with window.innerHeight = h; idx starts at the
\* first section and stays there for an empty list
centerIndexOf(rs, h) == IF Len(rs) = 0 THEN 1 ELSE centerScan(rs, h, 1)

centerSectionIndex(s) == centerIndexOf(Rects(s), s.vh)

\* ---- centerSectionIndex on its own: any rectangles ordered by their tops ----
Coords == (0 - MaxCoord) .. MaxCoord
RectSet == {r \in [top : Coords, bottom : Coords] : r.top <= r.bottom}
TopToBottom(rs) == \A i \in 1 .. Len(rs) - 1 : rs[i].top <= rs[i + 1].top
RectLists ==
    {rs \in UNION {[1 .. n -> RectSet] : n \in 1 .. MaxRects} : TopToBottom(rs)}
InnerHeights == 0 .. MaxInnerH

InitCenter ==
    /\ rects \in RectLists
    /\ innerH \in InnerHeights
    /\ idx = None

InitCenterIdle ==
    /\ rects = <<>>
    /\ innerH = 0
    /\ idx = None

\* centerSectionIndex is called on the rectangles at hand
CallCenter ==
    /\ idx = None
    /\ idx' = centerIndexOf(rects, innerH)
    /\ UNCHANGED <<rects, innerH, variantVars, mediaVars, snapVars, feedVars>>

NextCenter == CallCenter

\* history of the current step, cleared when a step begins
NoHist == [op |-> "init", ran |-> FALSE, scrolled |-> FALSE, sched |-> FALSE,
           exec |-> FALSE, schedAnim |-> FALSE, execAnim |-> FALSE,
           cancelled |-> FALSE, settled |-> FALSE, replaced |-> FALSE]

Begin(s, op) == [s EXCEPT !.h = [NoHist EXCEPT !.op = op]]

\* scheduleSnap and onScroll without their clearTimeout
clearSnapTimer_Noop(s) == s

\* clearTimeout(snapTimer)
clearSnapTimer(s) ==
    [s EXCEPT !.snapPending = {t \in @ : t.id # s.snapTimer}]

\* scheduleSnap(fn), fn being the snap of the given kind to section sec
scheduleSnap(s, kind, sec) ==
    LET s1 == IF s.snapTimer # 0 THEN clearSnapTimer(s) ELSE s
        armed == {t.id : t \in s1.snapPending}
    IN IF ~HasFreshId(armed, 0) THEN [s EXCEPT !.ok = FALSE]
       ELSE LET id == FreshId(armed, 0) IN
            [s1 EXCEPT !.snapTimer = id,
                       !.snapPending = @ \cup {[id |-> id, kind |-> kind, sec |-> sec]},
                       !.h.sched = TRUE,
                       !.h.replaced = \E t \in s.snapPending : t.id = s.snapTimer,
                       !.h.schedAnim = @ \/ s.animating]

\* watchSettle: a fresh tick closure (stable, last) and one requested frame
watchSettle(s) == [s EXCEPT !.stable = 0, !.last = None, !.rafId = 1]

\* scrollToY(y); window.scrollTo clamps to the scrollable range
scrollToY(s, y) ==
    LET ty == Max(0, y)
        dest == Min(ty, MaxScroll(s))
        s1 == [s EXCEPT !.animating = TRUE,
                        !.targetY = ty,
                        !.smoothTo = IF dest = s.scrollY THEN None ELSE dest,
                        !.cmds = Min(@ + 1, CmdCap),
                        !.lastCmd = ty,
                        !.h.exec = TRUE,
                        !.h.execAnim = @ \/ s.animating]
    IN watchSettle(s1)

\* tick that does not request the next animation frame
tick_NoRerequest(s) ==
    LET y == s.scrollY
        st == IF y = s.last THEN s.stable + 1 ELSE 0
        s1 == [s EXCEPT !.stable = st, !.last = y, !.h.ran = TRUE]
    IN IF st >= SETTLE_FRAMES \/ Abs(y - s.targetY) <= NEAR_EPS_PX
       THEN [s1 EXCEPT !.animating = FALSE, !.targetY = None, !.rafId = 0,
                       !.h.settled = TRUE]
       ELSE [s1 EXCEPT !.rafId = 0]

\* tick, the per-frame callback of watchSettle
tick(s) ==
    LET y == s.scrollY
        st == IF y = s.last THEN s.stable + 1 ELSE 0
        s1 == [s EXCEPT !.stable = st, !.last = y, !.h.ran = TRUE]
    IN IF st >= SETTLE_FRAMES \/ Abs(y - s.targetY) <= NEAR_EPS_PX
       THEN [s1 EXCEPT !.animating = FALSE, !.targetY = None, !.rafId = 0,
                       !.h.settled = TRUE]
       ELSE [s1 EXCEPT !.rafId = 1]

\* snapToNextTop aligning the section's bottom edge, as snapToPrevBottom does
snapToNextTop_Bottom(s, sec) == scrollToY(s, offsetTop(sec) + Height(sec) - s.vh)

snapToNextTop(s, sec) == scrollToY(s, offsetTop(sec))

snapToPrevBottom(s, sec) ==
    LET desired == offsetTop(sec) + Height(sec) - s.vh
    IN scrollToY(s, Max(offsetTop(sec), desired))

\* the threshold without its floor of 8 px
threshold_NoFloor(s) == s.vh \div OVERLAP_DIV

\* threshold = Math.max(8, Math.floor(vh * OVERLAP_FRAC)) of line 502
threshold(s) == Max(MIN_THRESHOLD_PX, s.vh \div OVERLAP_DIV)

\* onScroll without the cancellation of lines 489-493
flipWithTimer_Never(s, newDir) == FALSE

\* the test of line 489: the direction flipped and a timer handle is kept
flipWithTimer(s, newDir) == newDir # s.direction /\ s.snapTimer # 0

\* onScroll without the test of line 497
busy_Never(s) == FALSE

\* the test of line 497
busy(s) == s.animating

\* onScroll
onScroll(s) ==
    LET y == s.scrollY
        newDir == IF y > s.lastY THEN "down" ELSE IF y < s.lastY THEN "up" ELSE s.direction
        s1 == IF flipWithTimer(s, newDir)
              THEN [clearSnapTimer(s) EXCEPT
                        !.snapTimer = 0,
                        !.h.cancelled = @ \/ (\E t \in s.snapPending : t.id = s.snapTimer)]
              ELSE s
        s2 == [s1 EXCEPT !.direction = newDir, !.lastY = y,
                         !.h.ran = TRUE, !.h.scrolled = TRUE]
        i == centerSectionIndex(s2)
    IN IF busy(s2) THEN s2
       ELSE IF newDir = "down" /\ i < NumSections
       THEN LET nextTop == rectTop(s2, i + 1)
                nextVisible == Max(0, s2.vh - Max(0, nextTop))
            IN IF nextVisible >= threshold(s2) THEN scheduleSnap(s2, "next", i + 1) ELSE s2
       ELSE IF newDir = "up" /\ i > 1
       THEN LET prevBottom == rectBottom(s2, i - 1)
                prevVisible == Max(0, Min(prevBottom, s2.vh))
            IN IF prevVisible >= threshold(s2) THEN scheduleSnap(s2, "prev", i - 1) ELSE s2
       ELSE s2

\* ---- the controller's state as one record, and back ----
SState ==
    [vh |-> vh, scrollY |-> scrollY, smoothTo |-> smoothTo, scrollEvt |-> scrollEvt,
     lastY |-> lastY, direction |-> direction, animating |-> animating,
     snapTimer |-> snapTimer, snapPending |-> snapPending, targetY |-> targetY,
     rafId |-> rafId, stable |-> stable, last |-> last, cmds |-> cmds,
     lastCmd |-> lastCmd, h |-> slast, ok |-> TRUE]

SetSnap(s) ==
    /\ s.ok
    /\ vh' = s.vh
    /\ scrollY' = s.scrollY
    /\ smoothTo' = s.smoothTo
    /\ scrollEvt' = s.scrollEvt
    /\ lastY' = s.lastY
    /\ direction' = s.direction
    /\ animating' = s.animating
    /\ snapTimer' = s.snapTimer
    /\ snapPending' = s.snapPending
    /\ targetY' = s.targetY
    /\ rafId' = s.rafId
    /\ stable' = s.stable
    /\ last' = s.last
    /\ cmds' = s.cmds
    /\ lastCmd' = s.lastCmd
    /\ slast' = s.h

\* ---- the browser ----
\* offsets the user's own scrolling stops at
UserStops(s) ==
    {y \in {k * ScrollGrid : k \in 0 .. MaxGridK} \cup {threshold(s), MaxScroll(s)} :
        y <= MaxScroll(s)}

\* offsets a running smooth scroll can show at the next frame: a stride
\* further, one pixel short of its destination, or the destination
SmoothNext(s) ==
    IF s.smoothTo > s.scrollY
    THEN {y \in {s.scrollY + SmoothStride, s.smoothTo - 1, s.smoothTo} :
             y > s.scrollY /\ y <= s.smoothTo}
    ELSE {y \in {s.scrollY - SmoothStride, s.smoothTo + 1, s.smoothTo} :
             y < s.scrollY /\ y >= s.smoothTo}

\* the scroll event reaches the listener of line 522, if it was added
dispatchScroll(s) ==
    IF s.scrollEvt
    THEN (IF installed THEN onScroll([s EXCEPT !.scrollEvt = FALSE])
          ELSE [s EXCEPT !.scrollEvt = FALSE])
    ELSE s

\* the requested animation frame callback runs
dispatchFrame(s) == IF s.rafId # 0 THEN tick(s) ELSE s

\* One rendering frame: a running smooth scroll moves on, the scroll event is
\* dispatched, then the animation frame callbacks run.
Frame ==
    /\ smoothTo # None \/ scrollEvt \/ rafId # 0
    /\ \E y \in (IF smoothTo # None THEN SmoothNext(SState) ELSE {scrollY}) :
          LET s0 == Begin(SState, "frame")
              moved == IF smoothTo # None
                       THEN [s0 EXCEPT !.scrollY = y, !.scrollEvt = TRUE,
                                       !.smoothTo = IF y = smoothTo THEN None ELSE @]
                       ELSE s0
          IN \E s1 \in {moved} : \E s2 \in {dispatchScroll(s1)} :
                \E s3 \in {dispatchFrame(s2)} : SetSnap(s3)
    /\ UNCHANGED <<sections, loadState, userDone>>
    /\ UNCHANGED <<variantVars, mediaVars, restVars>>

\* the user scrolls the page to another offset, which ends a smooth scroll
UserScroll ==
    /\ \E y \in UserStops(SState) :
          /\ y # scrollY
          /\ SetSnap([Begin(SState, "user") EXCEPT !.scrollY = y, !.scrollEvt = TRUE,
                                                  !.smoothTo = None])
    /\ UNCHANGED <<sections, loadState, userDone>>
    /\ UNCHANGED <<variantVars, mediaVars, restVars>>

\* the snap timer t fires and runs its closure
SnapTimerFire ==
    /\ \E t \in snapPending :
          LET s0 == [Begin(SState, "timer") EXCEPT !.snapPending = @ \ {t}, !.h.ran = TRUE]
          IN SetSnap(IF t.kind = "next" THEN snapToNextTop(s0, t.sec)
                     ELSE snapToPrevBottom(s0, t.sec))
    /\ UNCHANGED <<sections, loadState, userDone>>
    /\ UNCHANGED <<variantVars, mediaVars, restVars>>

\* the window takes another height; the listener of line 525 runs
SnapResize ==
    /\ \E v \in ViewHeights :
          /\ v # vh
          /\ LET s0 == [Begin(SState, "resize") EXCEPT !.vh = v]
                 s1 == IF s0.scrollY > MaxScroll(s0)
                       THEN [s0 EXCEPT !.scrollY = MaxScroll(s0), !.scrollEvt = TRUE,
                                       !.smoothTo = None]
                       ELSE [s0 EXCEPT !.smoothTo = IF @ > MaxScroll(s0)
                                                    THEN MaxScroll(s0) ELSE @]
                 s2 == [s1 EXCEPT !.smoothTo = IF @ = s1.scrollY THEN None ELSE @]
             IN SetSnap(IF installed /\ ~s2.animating
                        THEN onScroll(s2) ELSE s2)
    /\ UNCHANGED <<sections, loadState, userDone>>
    /\ UNCHANGED <<variantVars, mediaVars, restVars>>

\* the load event: setTimeout(onScroll, 0)
LoadEvent ==
    /\ loadState = "loading"
    /\ loadState' = IF installed THEN "armed" ELSE "done"
    /\ SetSnap(Begin(SState, "load"))
    /\ UNCHANGED <<sections, userDone>>
    /\ UNCHANGED <<variantVars, mediaVars, restVars>>

\* the timer of the load listener fires
LoadTimerFire ==
    /\ loadState = "armed"
    /\ loadState' = "done"
    /\ SetSnap(onScroll(Begin(SState, "nudge")))
    /\ UNCHANGED <<sections, userDone>>
    /\ UNCHANGED <<variantVars, mediaVars, restVars>>

InitSnapWith(layouts, heights, starts) ==
    /\ sections \in layouts
    /\ vh \in heights
    /\ scrollY \in {y \in starts : y <= Max(0, PageHeight - vh)}
    /\ smoothTo = None
    /\ scrollEvt = FALSE
    /\ lastY = scrollY
    /\ direction = "down"
    /\ animating = FALSE
    /\ snapTimer = 0
    /\ snapPending = {}
    /\ targetY = None
    /\ rafId = 0
    /\ stable = 0
    /\ last = None
    /\ loadState = "loading"
    /\ cmds = 0
    /\ lastCmd = None
    /\ slast = NoHist
    /\ userDone = FALSE

InitSnap == InitSnapWith(Layouts, ViewHeights, {0, ScrollGrid})
InitSnapIdle == InitSnapWith({<<>>}, {0}, {0})

NextSnap ==
    \/ Frame
    \/ UserScroll
    \/ SnapTimerFire
    \/ SnapResize
    \/ LoadEvent
    \/ LoadTimerFire

SnapInit == InitVariantIdle /\ InitMediaIdle /\ InitSnap /\ InitFeedIdle /\ InitCenterIdle
SpecSnap == SnapInit /\ [][NextSnap]_vars

\* ---- the scenario of three sections in an 800 px viewport ----
ScenarioLayout == <<800, 1200, 600>>

\* the visible height of section i + 1 meets the threshold (lines 506-508)
nextVisibleEnough(s, i) ==
    Max(0, s.vh - Max(0, rectTop(s, i + 1))) >= threshold(s)

\* the user scrolls down slowly and stops once the next section shows enough
UserScrollDown ==
    /\ ~userDone
    /\ \E d \in {UserStepSmall, UserStepBig} :
          LET s1 == [Begin(SState, "user") EXCEPT !.scrollY = scrollY + d,
                                                 !.scrollEvt = TRUE, !.smoothTo = None]
          IN /\ scrollY + d <= MaxScroll(SState)
             /\ SetSnap(s1)
             /\ userDone' = nextVisibleEnough(s1, centerSectionIndex(SState))
    /\ UNCHANGED <<sections, loadState>>
    /\ UNCHANGED <<variantVars, mediaVars, restVars>>

InitScenario == InitSnapWith({ScenarioLayout}, {800}, {0})

NextScenario ==
    \/ UserScrollDown
    \/ Frame
    \/ SnapTimerFire
    \/ LoadEvent
    \/ LoadTimerFire

ScenarioInit ==
    InitVariantIdle /\ InitMediaIdle /\ InitScenario /\ InitFeedIdle /\ InitCenterIdle
SpecScenario == ScenarioInit /\ [][NextScenario]_vars

\* ---- the three-section page with the browser rendering frames for ever ----
\* requestAnimationFrame callbacks and scroll events are delivered: a frame
\* that has something to do is eventually rendered
InitSettle == InitSnapWith({ScenarioLayout}, {800}, {0})

\* the user scrolls the page as long as they have not let go of it
UserScrollOn == ~userDone /\ UserScroll

\* the user lets go of the page: no scrolling of their own from here on
UserLetsGo ==
    /\ ~userDone
    /\ userDone' = TRUE
    /\ SetSnap(Begin(SState, "letgo"))
    /\ UNCHANGED <<sections, loadState>>
    /\ UNCHANGED <<variantVars, mediaVars, restVars>>

NextSettle ==
    \/ Frame
    \/ UserScrollOn
    \/ UserLetsGo
    \/ SnapTimerFire

SettleInit ==
    InitVariantIdle /\ InitMediaIdle /\ InitSettle /\ InitFeedIdle /\ InitCenterIdle
SpecSettle == SettleInit /\ [][NextSettle]_vars /\ WF_vars(Frame)

VariantInit == InitVariant /\ InitMediaIdle /\ InitSnapIdle /\ InitFeedIdle /\ InitCenterIdle
SpecVariant == VariantInit /\ [][NextVariant]_vars
MediaInit == InitVariantIdle /\ InitMedia /\ InitSnapIdle /\ InitFeedIdle /\ InitCenterIdle
SpecMedia == MediaInit /\ [][NextMedia]_vars
FeedInit == InitVariantIdle /\ InitMediaIdle /\ InitSnapIdle /\ InitFeed /\ InitCenterIdle
SpecFeed == FeedInit /\ [][NextFeed]_vars
CenterInit == InitVariantIdle /\ InitMediaIdle /\ InitSnapIdle /\ InitFeedIdle /\ InitCenter
SpecCenter == CenterInit /\ [][NextCenter]_vars

\* ================================================================
\* Properties of the aspect selector
\* ================================================================
\* C10: for positive width and height chooseVariant returns landscape exactly
\* when width >= height; a 16:9 viewport gives landscape, a 9:16 one portrait.
C10_LandscapeIffWider ==
    (result # "none" /\ argW > 0 /\ argH > 0)
        => /\ (result = "landscape") <=> (argW >= argH)
           /\ 9 * argW = 16 * argH => result = "landscape"
           /\ 16 * argW = 9 * argH => result = "portrait"

\* C10 witness: chooseVariant has answered portrait for a 9:16 viewport.
C10_Witness == argW = 9 /\ argH = 16 /\ result = "portrait"

\* C11 as stated: for every positive width and height, chooseVariant on the
\* swapped pair (h, w) returns the opposite variant of chooseVariant(w, h).
C11_SwapOppositeAlways ==
    (result # "none" /\ argW > 0 /\ argH > 0)
        => chooseVariant(argH, argW) # result

\* C11, amended: for positive width and height that differ, chooseVariant on
\* the swapped pair returns the opposite variant; for a square viewport both
\* calls are the same call and return landscape.
C11_SwapOppositeUnlessSquare ==
    (result # "none" /\ argW > 0 /\ argH > 0)
        => IF argW # argH
           THEN chooseVariant(argH, argW) # result
           ELSE chooseVariant(argH, argW) = "landscape" /\ result = "landscape"

\* C11 witness: 10 x 9 was answered landscape and its swap 9 x 10 is portrait.
C11_Witness ==
    /\ argW = 10 /\ argH = 9 /\ result = "landscape"
    /\ chooseVariant(9, 10) = "portrait"

\* C19: for a width or height that is zero or negative (both zero included)
\* chooseVariant never answers portrait.
C19_DegenerateNeverPortrait ==
    (result # "none" /\ (argW <= 0 \/ argH <= 0)) => result = "landscape"

\* ================================================================
\* Properties of the media crossfade controller
\* ================================================================
\* transitions that were accepted and whose seek-and-show step or delayed
\* pause has not run yet
WaitingOn(v) ==
    {listeners[v][i].id : i \in {j \in 1 .. Len(listeners[v]) :
                                   listeners[v][j].kind = "startNew"}}

InFlight ==
    WaitingOn("vidL") \cup WaitingOn("vidP") \cup {pauseQ[i].id : i \in 1 .. Len(pauseQ)}

HandlerOps == {"noop", "startNew", "defer"}

\* C2: after a completed transition (nothing of any transition is left to
\* run), with playback allowed to start, the current surface has opacity 1
\* and is playing and the other surface has opacity 0.
C2_AtRestOneSurfaceShown ==
    (nTrans >= 1 /\ InFlight = {} /\ autoplayOK)
        => /\ opacity[current] = "1"
           /\ ~paused[current]
           /\ opacity[other] = "0"

\* C3: at most one transition is in flight at any time.
C3_OneTransitionInFlight == Cardinality(InFlight) <= 1

\* C4: a run of onSmartResize that sees the viewport size of the previous run
\* changes neither the variant, the roles, the opacities, the playback
\* positions nor the play/pause states, and registers no listener or timer.
C4_HandlerIdempotent ==
    [][(mlast'.op \in HandlerOps /\ lastArgs = <<winW, winH>>)
          => /\ UNCHANGED <<variant, current, other, opacity, paused, pos,
                            listeners, pauseQ>>
             /\ resizePending' \subseteq resizePending]_vars

\* C4 witness: the handler has just run a second time on the same size, after
\* a variant change had been accepted.
C4_Witness == mlast.op = "noop" /\ mlast.rep /\ nTrans >= 1

\* C6: at most one debounce timer is armed, the handler runs at most once
\* after the last signal, and once no timer is armed the variant is the one
\* of the viewport size at that time.
C6_Debounced ==
    /\ Cardinality(resizePending) <= 1
    /\ runsSinceSignal <= 1
    /\ resizePending = {} => variant = chooseVariant(winW, winH)

\* C6 witness: a burst of at least two signals ended in one run of the handler
\* that started a transition.
C6_Witness ==
    /\ mlast.op = "startNew" /\ mlast.burst = 2
    /\ runsSinceSignal = 1 /\ resizePending = {}

\* C7: right after the seek-and-show step of a transition, the incoming
\* surface is at min(t, max(duration - eps, 0)), t being the outgoing
\* surface's position captured when the variant change was accepted.
C7_PositionPreserved ==
    mlast.op \in {"startNew", "startNewLate"}
        => pos[mlast.vid] = Min(mlast.t, Max(Duration(mlast.vid) - EPS, 0))

\* the steps that seek, set an opacity or start playback
EffectOps == {"startNew", "startNewLate", "ensureStart"}

\* entries of q that belong to transition id
PausesOf(q, id) == {k \in 1 .. Len(q) : q[k].id = id}

\* C13: while an accepted variant change waits for the metadata of its
\* incoming surface, no step seeks, sets an opacity or starts playback on
\* either surface; the step in which that metadata arrives runs the
\* seek-and-show step of the waiting transition exactly once.
C13_DeferredUntilMetadata ==
    [][\A v \in Vids :
          /\ (WaitingOn(v) # {} /\ ~ready'[v]) => mlast'.op \notin EffectOps
          /\ (WaitingOn(v) # {} /\ ready'[v])
                => /\ listeners'[v] = <<>>
                   /\ \A id \in WaitingOn(v) :
                         Cardinality(PausesOf(pauseQ', id)) = 1]_vars

\* C14: when the seek of a transition's seek-and-show step throws, the
\* incoming surface keeps its position, the outgoing surface ends with
\* opacity 0 and the incoming one with opacity 1, playback of the incoming
\* surface is started and the delayed pause of the transition is scheduled.
C14_SeekThrowIsSwallowed ==
    [][(mlast'.op \in {"startNew", "startNewLate"} /\ mlast'.thr)
          => LET incoming == mlast'.vid
                 outgoing == OtherOf(mlast'.vid)
             IN /\ pos'[incoming] = pos[incoming]
                /\ opacity'[outgoing] = "0"
                /\ opacity'[incoming] = "1"
                /\ autoplayOK => ~paused'[incoming]
                /\ PausesOf(pauseQ', mlast'.id) # {}]_vars

\* ================================================================
\* Properties of the section snap controller
\* ================================================================
\* C1: scheduleSnap and scrollToY are never called while animating is true,
\* and no snap timer is armed while a snap is active.
C1_NoSnapWhileAnimating ==
    /\ ~slast.schedAnim
    /\ ~slast.execAnim
    /\ animating => snapPending = {}

\* C1 witness: a scroll signal was handled during an active snap.
C1_Witness == animating /\ slast.scrolled /\ cmds >= 1

\* C5: when the direction flips, no snap of the kind that was pending before
\* the flip is pending after it.
C5_FlipCancelsPending ==
    [][direction' # direction
          => \A t \in snapPending : \A u \in snapPending' : u.kind # t.kind]_vars

\* C5 witness: a flip has just cancelled the pending snap.
C5_Witness == slast.cancelled /\ snapPending = {} /\ ~animating

\* the page is at rest after the user stopped
Quiescent ==
    /\ userDone /\ ~scrollEvt /\ smoothTo = None
    /\ snapPending = {} /\ ~animating /\ rafId = 0

\* C8: in the scenario at most one scroll command is issued, it targets the
\* top offset of the second section, and once the page is at rest exactly one
\* has been issued.
C8_OneSnapToNextTop ==
    /\ cmds <= 1
    /\ cmds = 1 => lastCmd = offsetTop(2)
    /\ Quiescent => cmds = 1

\* C8 witness: the page is at rest on the second section after one command.
C8_Witness == Quiescent /\ cmds = 1 /\ scrollY = offsetTop(2) /\ sections = ScenarioLayout

\* C9: on a page with fewer than two sections no scroll command is issued, no
\* snap is scheduled, and no code of the controller runs at all.
C9_ShortPageInert ==
    NumSections < 2
        => /\ cmds = 0
           /\ snapPending = {}
           /\ ~slast.sched /\ ~slast.exec /\ ~slast.ran

\* C9 witness: a one-section page has been scrolled and the scroll event of
\* that was dispatched.
C9_Witness == NumSections = 1 /\ slast.op = "frame" /\ scrollY > 0 /\ ~scrollEvt

\* C15: a snap that started executing completes: with frames being rendered
\* and the user's own scrolling over, animating always returns to false, also
\* when the target offset cannot be reached; and animating goes from true to
\* false only in a frame where the position has been unchanged for 6
\* consecutive frames or lies within 2 px of the target.
C15_SnapCompletes ==
    /\ [][(animating /\ ~animating')
             => \/ stable' >= SETTLE_FRAMES
                \/ Abs(scrollY' - targetY) <= NEAR_EPS_PX]_vars
    /\ (animating /\ userDone) ~> ~animating

\* C15 witness: a snap towards an offset beyond the end of the page has ended
\* after 6 frames without movement, away from its target.
C15_Witness ==
    /\ slast.settled /\ ~animating
    /\ lastCmd > MaxScroll(SState) /\ scrollY = MaxScroll(SState)
    /\ stable = SETTLE_FRAMES

\* C16: at most one snap timer is armed in every reachable state, and right
\* after a snap is scheduled the armed timer is the one just scheduled.
C16_OneSnapTimer ==
    /\ Cardinality(snapPending) <= 1
    /\ slast.sched => \A t \in snapPending : t.id = snapTimer

\* C16 witness: a snap was scheduled while an earlier one was armed, and one
\* timer is armed.
C16_Witness == slast.sched /\ slast.replaced /\ Cardinality(snapPending) = 1

\* C18: with a viewport height of 0, a step that handles a scroll or resize
\* signal (or the nudge after load) schedules no snap and issues no scroll
\* command.
C18_ZeroHeightInert ==
    (vh = 0 /\ slast.op \in {"frame", "resize", "nudge"})
        => ~slast.sched /\ ~slast.exec

\* C18 witness: on a page of three sections with viewport height 0, a scroll
\* event away from the top was handled.
C18_Witness ==
    /\ vh = 0 /\ NumSections = 3 /\ scrollY > 0
    /\ slast.op = "frame" /\ slast.scrolled /\ ~animating

\* C20: when a snap timer fires, the command it issues targets the neighbour,
\* in the current direction, of the section centered at that moment: a snap
\* while scrolling down goes to the top of the next section and not above the
\* current offset, a snap while scrolling up to the bottom alignment of the
\* previous section and not below the current offset.
C20_SnapMatchesStateAtFire ==
    slast.op = "timer"
        => LET i == centerSectionIndex(SState) IN
           IF direction = "down"
           THEN /\ i < NumSections
                /\ lastCmd = offsetTop(i + 1)
                /\ lastCmd >= scrollY
           ELSE /\ i > 1
                /\ lastCmd = Max(0, Max(offsetTop(i - 1),
                                        offsetTop(i - 1) + Height(i - 1) - vh))
                /\ lastCmd <= scrollY

\* ================================================================
\* Properties of the project grid loader
\* ================================================================
\* the feed fails to load: fetch rejects, the response is not ok, the body
\* does not parse, it is no array, or createCard throws on one of its elements
FeedFails ==
    \/ res.settled = "rejected"
    \/ ~res.ok
    \/ res.body.parse = "error"
    \/ ~res.body.array
    \/ \E i \in 1 .. Len(res.body.items) : createCardThrows(res.body.items[i])

\* C12: whenever loading the feed fails, loadProjects ends with the grid
\* holding the failure message as its only child, with no project card (none
\* of those built before the failure either), and its promise fulfils.
C12_FailureShowsOnlyPlaceholder ==
    (feedPc = "done" /\ res.settled # "pending" /\ FeedFails)
        => grid = <<"fail">> /\ loadResult = "fulfilled"

\* C12 witness: createCard threw on the third element after two cards had
\* been appended, and the grid holds the message alone.
C12_Witness ==
    /\ feedPc = "done"
    /\ res.settled = "resolved" /\ res.ok /\ res.body.array
    /\ res.body.items = <<"object", "object", "badButtons">>
    /\ grid = <<"fail">>

\* ================================================================
\* Properties of centerSectionIndex
\* ================================================================
ContainsMid(r) == 2 * r.top <= innerH /\ 2 * r.bottom >= innerH
BelowMid(r) == 2 * r.top > innerH

\* C17: for every non-empty list of rectangles ordered top to bottom,
\* centerSectionIndex returns a valid index: that of a section containing the
\* viewport midpoint if there is one, otherwise the index just before the
\* first section whose top exceeds the midpoint (the first index if that
\* section is the first), or the last index if no top exceeds the midpoint.
C17_CenterIndex ==
    idx # None =>
        /\ idx \in 1 .. Len(rects)
        /\ IF \E i \in 1 .. Len(rects) : ContainsMid(rects[i])
           THEN ContainsMid(rects[idx])
                /\ \A j \in 1 .. idx - 1 : ~ContainsMid(rects[j])
           ELSE IF \E i \in 1 .. Len(rects) : BelowMid(rects[i])
           THEN LET first == CHOOSE i \in 1 .. Len(rects) :
                                 /\ BelowMid(rects[i])
                                 /\ \A j \in 1 .. i - 1 : ~BelowMid(rects[j])
                IN idx = IF first = 1 THEN 1 ELSE first - 1
           ELSE idx = Len(rects)

\* C17 witness: no rectangle contains the midpoint and the second one is the
\* first to start below it, so the scan fell back to the first.
C17_Witness ==
    /\ rects = <<[top |-> 0 - 2, bottom |-> 0 - 1], [top |-> 2, bottom |-> 2]>>
    /\ innerH = 2
    /\ idx = 1

====
